---- MODULE Spec2Model ----
(***************************************************************************)
(* Model of the shared-state caching layer and background refresh of the   *)
(* ROS2 node manager, taken from the Python services described in          *)
(* optimization.md: CacheService (get_or_fetch / invalidate /              *)
(* invalidate_prefix) and NodeService._refresh_loop.                       *)
(*                                                                         *)
(* The services run on one asyncio event loop: a coroutine runs without    *)
(* interruption up to its next await.  Every action below is one such      *)
(* uninterrupted stretch.  Time is a discrete clock in seconds.            *)
(***************************************************************************)
EXTENDS Integers, Sequences, FiniteSets, TLC

(* ------------------------------ bounds --------------------------------- *)
MaxTime == 3
MaxCalls == 2
MaxLatency == 1
SchedMaxTime == 40
SchedMaxLatency == 5
BufferMaxLen == 2       \* deque(maxlen=1000), scaled down
ReplayCount == 1        \* get_recent(count=100), scaled down
MaxRecords == 3         \* records the stream produces in one behaviour
MaxCount == 3           \* largest count asked of get_recent
MaxStarts == 1          \* further calls of LogService.start()
MaxNotes == 7           \* notifications added in one behaviour
MaxMsgs == 4            \* log messages a panel receives in one behaviour
LogsKept == 3           \* slice(-1000) of the log panel, scaled down
MaxSockets == 3         \* alert sockets one useAlerts instance creates

(* -------------------------- program constants -------------------------- *)
SleepSeconds == 5
ServicesPeriod == 30
NodesTTL == 5
ServicesTTL == 30

(* Cache keys are strings; a string is a sequence of characters.           *)
NodesListKey == <<"n", "l">>
ServicesListKey == <<"s", "l">>
NodeInfoKey == <<"n", "i">>
Keys == {NodesListKey, ServicesListKey, NodeInfoKey}
InvalidateKeys == Keys \cup {<<"x">>}
Prefixes == {<<>>, <<"n">>, <<"s">>, <<"l">>, <<"n", "l">>, <<"n", "i">>,
             <<"n", "l", "x">>}
TTLs == {2}

Handlers == {"h1", "h2"}
Loop == "loop"
Procs == Handlers \cup {Loop}
Tasks == {"nodes", "services"}

NoEntry == [present |-> FALSE, value |-> 0, expiresAt |-> 0]
NoOutcome == [kind |-> "none", v |-> 0]
Pending == [kind |-> "pending", v |-> 0]
NoResult == [kind |-> "none", v |-> 0, fetched |-> FALSE]
NoCall == [key |-> <<>>, ttl |-> 0, startedAt |-> 0]

\* websocket connections to /ws/logs; each subscribes once, when accepted
Conns == {"w1", "w2"}
Hole == "hole"

\* sourceName and level of the /rosout records the stream produces
RecordKinds == {[source |-> <<"a", "b">>, level |-> 1],
                [source |-> <<"b", "a">>, level |-> 2]}

\* the filters a client asks for: node patterns ("*" is the wildcard, no
\* pattern at all when the query has none) and the level floor
Filters == {[patterns |-> {}, minLevel |-> 2],
            [patterns |-> {<<"a">>}, minLevel |-> 1],
            [patterns |-> {<<"*", "a">>, <<"x">>}, minLevel |-> 1]}

NoFilter == [patterns |-> {}, minLevel |-> 0]
NoRecord == [seq |-> 0, source |-> <<>>, level |-> 0]
NoFan == [rec |-> NoRecord, pos |-> 0, to |-> Hole, used |-> 0,
          filters |-> [c \in Conns |-> NoFilter]]

\* the nodes the detail panel can be opened for
DetailNodes == {"a", "b"}

\* what the server reports of a node: type, status and lifecycle state
\* ("" when there is none)
NodeTypes == {"unknown", "regular", "lifecycle"}
NodeStatuses == {"active", "inactive"}
LifecycleStates == {"", "unconfigured", "inactive", "active", "finalized"}
NodeInfos == [type : NodeTypes, status : NodeStatuses,
              lifecycle_state : LifecycleStates]

\* the details the server returns in the behaviours explored
NodeKinds ==
    {[type |-> "unknown", status |-> "active", lifecycle_state |-> ""],
     [type |-> "regular", status |-> "active", lifecycle_state |-> ""],
     [type |-> "regular", status |-> "inactive", lifecycle_state |-> ""],
     [type |-> "lifecycle", status |-> "active",
      lifecycle_state |-> "inactive"]}

NoNode == [name |-> "", type |-> "", status |-> "", lifecycle_state |-> ""]
NoRequest == [name |-> "", stage |-> ""]

VARIABLES
    cache,      \* CacheService._cache : key -> (value, expires_at)
    locks,      \* keys of CacheService._locks
    locked,     \* asyncio.Lock._locked of each key's lock
    waiters,    \* asyncio.Lock._waiters of each key's lock (FIFO)
    pc,         \* position of each coroutine inside get_or_fetch
    cur,        \* arguments of the call in progress, start of its fetch_fn
    result,     \* what get_or_fetch has just returned or raised
    now,        \* datetime.now() / time.time(), whole seconds
    calls,      \* number of get_or_fetch calls made by request handlers
    rpc,        \* position of _refresh_loop
    wakeAt,     \* end of the current asyncio.sleep(5)
    lastError,  \* task whose exception the loop printed last, "" if none
    lastRunAt,  \* per refresh task: start time of its latest run, -1 if none
    recording,  \* history: whether this behaviour keeps the history below
    joined,     \* history: outcome of the fetch that was running when the
                \* call arrived
    staleFetch, \* history: coroutines whose running fetch_fn began before
                \* an invalidation of its key
    staleEntry, \* history: keys whose cached entry such a fetch stored
    sawStale,   \* history: coroutines whose call began after that
                \* invalidation while the fetch or its entry was there
    buffer,     \* LogService.buffer, oldest record first
    subscribers,\* LogService.subscribers, in insertion order; a removed
                \* entry leaves a hole behind
    conn,       \* each websocket connection: "new", "open" or "closed"
    filter,     \* node_patterns and log_levels of each logs_websocket call
    pump,       \* the collector task: Disconnected, Connecting or Streaming
    started,    \* LogService._collector_task has been created
    fan,        \* the "for callback in ..." loop of _collect_logs
    sent,       \* what each websocket has taken, in the order taken
    stream,     \* history: every record the stream has produced
    backlog,    \* history: the matching tail of the buffer at subscribe time
    more,       \* the stream of each collector task a further start() made
    notifications, \* NotificationProvider: ids of the toasts, oldest first
    timers,     \* timersRef: ids that have an auto-dismiss timer pending
    nextId,     \* number of notifications created so far (ids are unique)
    dropped,    \* history: ids a full list has pushed out
    panelNode,  \* LogPanel: the nodeName prop, "" while there is none
    logs,       \* LogPanel: the displayed log list
    paused,     \* LogPanel: the paused state
    pausedLogs, \* LogPanel: pausedLogsRef.current
    seenPaused, \* LogPanel: the value of paused inside the onMessage closure
    arrived,    \* number of log messages the panel's sockets have delivered
    hook,       \* useAlerts: "new", "mounted" or "gone" (unmounted)
    enabled,    \* useAlerts: the enabled argument of the latest render
    wsRef,      \* useAlerts: wsRef.current, index into socks, 0 for null
    isConnecting, \* useAlerts: isConnectingRef.current
    refTimer,   \* useAlerts: reconnectTimeoutRef.current: "none" (null),
                \* "pending", or "dead" (a timer that was cleared or fired)
    reconnects, \* useAlerts: number of reconnect timers that are pending
    socks,      \* every WebSocket the hook has created: readyState and
                \* whether onclose and onerror are still set
    sel,        \* NodeDetailPanel: the nodeName prop, "" while there is none
    node,       \* NodeDetailPanel: the node state (the detail displayed)
    loading,    \* NodeDetailPanel: the loading state
    error,      \* NodeDetailPanel: whether the error state holds a message
    actionLoading, \* NodeDetailPanel: the action in progress, "" for null
    showConfirm,\* NodeDetailPanel: the kill confirmation is open
    detailCache,\* NodeDetailPanel: the cache state, node name -> detail
    effect,     \* the requests of the selection effect that is not cancelled
    refreshes,  \* node names a refresh() from the Refresh button awaits
    act         \* the handleShutdown / handleLifecycle call in progress

notifVars == <<notifications, timers, nextId, dropped>>

panelVars == <<panelNode, logs, paused, pausedLogs, seenPaused, arrived>>

alertVars == <<hook, enabled, wsRef, isConnecting, refTimer, reconnects,
               socks>>

detailVars == <<sel, node, loading, error, actionLoading, showConfirm,
                detailCache, effect, refreshes, act>>

\* the state of the web client
frontVars == <<notifVars, panelVars, alertVars, detailVars>>

vars == <<cache, locks, locked, waiters, pc, cur, result, now, calls,
          rpc, wakeAt, lastError, lastRunAt,
          recording, joined, staleFetch, staleEntry, sawStale,
          buffer, subscribers, conn, filter, pump, started, fan, sent,
          stream, backlog, more, frontVars>>

cacheVars == <<cache, locks, locked, waiters, pc, cur, result,
               recording, joined, staleFetch, staleEntry, sawStale>>
loopVars == <<rpc, wakeAt, lastError, lastRunAt>>
logVars == <<buffer, subscribers, conn, filter, pump, started, fan, sent,
             stream, backlog>>
backVars == <<cacheVars, now, calls, loopVars, logVars, more>>

(* ------------------------------ helpers -------------------------------- *)

\* the prefix matched anywhere in the key instead of at its start
ContainsPrefix(k, prefix) ==
    \E d \in 0..(Len(k) - Len(prefix)) :
        \A i \in 1..Len(prefix) : k[d + i] = prefix[i]

\* str.startswith(prefix)
StartsWith(k, prefix) ==
    /\ Len(prefix) <= Len(k)
    /\ \A i \in 1..Len(prefix) : k[i] = prefix[i]

\* the expiry check left out: whatever is in the cache counts as live
LiveIgnoringExpiry(k) == cache[k].present

\* key in self._cache and datetime.now() < expires_at
Live(k) == cache[k].present /\ now < cache[k].expiresAt

\* one lock for the whole cache instead of one per key
GlobalLock(k) == NodesListKey

\* self._locks[key]: the lock that guards key k
LockOf(k) == k

\* the lock is not consulted before fetch_fn is started
CanAcquireAlways(k) == TRUE

\* asyncio.Lock.acquire returns without suspending
CanAcquire(k) == ~locked[LockOf(k)] /\ waiters[LockOf(k)] = <<>>

\* the coroutines whose fetch_fn for key k is running
Fetchers(k) == {q \in Procs : pc[q] = "fetching" /\ cur[q].key = k}

\* the coroutines suspended on the lock of key k
Waiting(k) == {q \in Procs : pc[q] = "waiting" /\ cur[q].key = k}

\* a coroutine whose get_or_fetch has just returned runs on, without
\* interruption, to the end of its request or to its next await: no other
\* coroutine runs before it has done so
Returned == \E p \in Procs : pc[p] = "done"

\* a history variable takes its new value only where history is kept
Rec(new, old) == IF recording THEN new ELSE old

\* the payload fetch_fn returns: the state of the resource as of now
Payload == now

(* ----------------------------- CacheService ---------------------------- *)

\* the cached value is returned
ReturnCached(p, k) ==
    /\ pc' = [pc EXCEPT ![p] = "done"]
    /\ result' = [result EXCEPT ![p] =
           [kind |-> "value", v |-> cache[k].value, fetched |-> FALSE]]

\* value = await fetch_fn() begins
StartFetch(p, k, t) ==
    /\ locked' = [locked EXCEPT ![LockOf(k)] = TRUE]
    /\ pc' = [pc EXCEPT ![p] = "fetching"]
    /\ cur' = [cur EXCEPT ![p] = [key |-> k, ttl |-> t, startedAt |-> now]]
    /\ result' = [result EXCEPT ![p] = NoResult]
    /\ sawStale' = sawStale \ (Waiting(k) \cup {p})

\* get_or_fetch from its first line to its first suspension (or return)
GetOrFetch(p, k, t) ==
    /\ UNCHANGED <<cache, recording, staleFetch, staleEntry>>
    /\ IF Live(k)
       THEN /\ ReturnCached(p, k)
            /\ cur' = [cur EXCEPT ![p] = [key |-> k, ttl |-> t, startedAt |-> now]]
            /\ sawStale' = IF k \in staleEntry
                           THEN Rec(sawStale \cup {p}, sawStale)
                           ELSE sawStale
            /\ UNCHANGED <<locks, locked, waiters, joined>>
       ELSE /\ locks' = locks \cup {LockOf(k)}
            /\ IF CanAcquire(k)
               THEN /\ StartFetch(p, k, t)
                    /\ UNCHANGED <<waiters, joined>>
               ELSE /\ waiters' = [waiters EXCEPT ![LockOf(k)] = Append(@, p)]
                    /\ pc' = [pc EXCEPT ![p] = "waiting"]
                    /\ cur' = [cur EXCEPT ![p] =
                           [key |-> k, ttl |-> t, startedAt |-> now]]
                    /\ result' = [result EXCEPT ![p] = NoResult]
                    /\ joined' = [joined EXCEPT ![p] =
                           IF Fetchers(k) # {} THEN Rec(Pending, NoOutcome)
                           ELSE NoOutcome]
                    /\ sawStale' = IF Fetchers(k) \cap staleFetch # {}
                                   THEN Rec(sawStale \cup {p}, sawStale)
                                   ELSE sawStale
                    /\ UNCHANGED locked

\* a request handler calls cache.get_or_fetch(key, fetch_fn, ttl_seconds)
Call(p, k, t) ==
    /\ p \in Handlers
    /\ ~Returned
    /\ pc[p] = "idle"
    /\ calls < MaxCalls
    /\ calls' = calls + 1
    /\ GetOrFetch(p, k, t)
    /\ UNCHANGED <<now, loopVars, logVars, more,
                   frontVars>>

\* the lock is handed to the first waiter: re-check of the cache, then
\* either return the cached value or start fetch_fn
Resume(p) ==
    LET k == cur[p].key
        l == LockOf(k)
    IN  /\ ~Returned
        /\ pc[p] = "waiting"
        /\ ~locked[l]
        /\ waiters[l] # <<>>
        /\ Head(waiters[l]) = p
        /\ waiters' = [waiters EXCEPT ![l] = Tail(@)]
        /\ IF Live(k)
           THEN /\ ReturnCached(p, k)
                /\ UNCHANGED <<locked, cur, sawStale>>
           ELSE StartFetch(p, k, cur[p].ttl)
        /\ UNCHANGED <<cache, locks, calls, now, loopVars, recording, joined,
                       staleFetch, staleEntry, logVars, more,
                   frontVars>>

\* get_or_fetch has returned to a request handler, which ends its request
\* in the same uninterrupted stretch
Finish(p) ==
    /\ p \in Handlers
    /\ pc[p] = "done"
    /\ pc' = [pc EXCEPT ![p] = "idle"]
    /\ cur' = [cur EXCEPT ![p] = NoCall]
    /\ result' = [result EXCEPT ![p] = NoResult]
    /\ joined' = [joined EXCEPT ![p] = NoOutcome]
    /\ sawStale' = sawStale \ {p}
    /\ UNCHANGED <<cache, locks, locked, waiters, calls, now, loopVars,
                   recording, staleFetch, staleEntry, logVars, more,
                   frontVars>>

\* the callers that arrived while p's fetch_fn was running learn its outcome
Outcome(p, o) ==
    [q \in Procs |->
        IF q \in Waiting(cur[p].key) /\ joined[q] = Pending THEN o
        ELSE joined[q]]

\* self._cache[key] = (value, datetime.now() + timedelta(seconds=ttl_seconds))
Store(k, v, t) ==
    [cache EXCEPT ![k] = [present |-> TRUE, value |-> v, expiresAt |-> now + t]]

\* fetch_fn returned: store the value, leave the lock, return the value
FetchOk(p) ==
    LET k == cur[p].key
    IN  /\ ~Returned
        /\ pc[p] = "fetching"
        /\ cache' = Store(k, Payload, cur[p].ttl)
        /\ locked' = [locked EXCEPT ![LockOf(k)] = FALSE]
        /\ pc' = [pc EXCEPT ![p] = "done"]
        /\ result' = [result EXCEPT ![p] =
               [kind |-> "value", v |-> Payload, fetched |-> TRUE]]
        /\ joined' = Outcome(p, [kind |-> "value", v |-> Payload])
        /\ staleEntry' = IF p \in staleFetch THEN staleEntry \cup {k}
                         ELSE staleEntry \ {k}
        /\ staleFetch' = staleFetch \ {p}
        /\ UNCHANGED <<locks, waiters, cur, calls, now, loopVars, recording,
                       sawStale, logVars, more,
                   frontVars>>

\* the exception is stored as if it were the fetched value
CacheWithError(k) ==
    [cache EXCEPT ![k] = [present |-> TRUE, value |-> -1, expiresAt |-> now + 2]]

\* what the cache holds after fetch_fn of the call for key k raised
CacheAfterFailure(k) == cache

\* fetch_fn raised: the exception leaves the async with block and reaches
\* the caller
FetchFail(p) ==
    LET k == cur[p].key
    IN  /\ ~Returned
        /\ pc[p] = "fetching"
        /\ cache' = CacheAfterFailure(k)
        /\ locked' = [locked EXCEPT ![LockOf(k)] = FALSE]
        /\ pc' = [pc EXCEPT ![p] = "done"]
        /\ result' = [result EXCEPT ![p] =
               [kind |-> "error", v |-> 0, fetched |-> TRUE]]
        /\ joined' = Outcome(p, [kind |-> "error", v |-> 0])
        /\ staleFetch' = staleFetch \ {p}
        /\ UNCHANGED <<locks, waiters, cur, calls, now, loopVars, recording,
                       staleEntry, sawStale, logVars, more,
                   frontVars>>

\* keys_to_remove of invalidate_prefix
KeysToRemove(prefix) == {k \in Keys : StartsWith(k, prefix)}

\* the cache after self._cache.pop(key, None) for every key of S
Popped(S) == [k \in Keys |-> IF k \in S THEN NoEntry ELSE cache[k]]

Pop(S) ==
    /\ ~Returned
    /\ cache' = Popped(S)
    /\ staleFetch' = Rec(staleFetch \cup
                          UNION {Fetchers(k) : k \in S \cap Keys}, staleFetch)
    /\ staleEntry' = staleEntry \ S
    /\ UNCHANGED <<locks, locked, waiters, pc, cur, result, calls, now,
                   loopVars, recording, joined, sawStale, logVars, more,
                   frontVars>>

Invalidate(key) == Pop({key})

InvalidatePrefix(prefix) == Pop(KeysToRemove(prefix))

(* ----------------------- NodeService._refresh_loop ---------------------- *)

\* refresh_nodes(): the node list is read through the cache
RefreshNodes == GetOrFetch(Loop, NodesListKey, NodesTTL)

\* conn._refresh_services_cache(): the service list is read through the cache
RefreshServicesCache == GetOrFetch(Loop, ServicesListKey, ServicesTTL)

\* int(time.time()) % 30 == 0
ServicesDue == now % ServicesPeriod = 0

\* the refresh is started as a task of its own and not awaited
RunNotAwaited == TRUE

\* "await": the loop goes on only when the awaited call has returned
RunAwaited == pc[Loop] = "done"

\* await asyncio.sleep(5), the frame of the awaited call being gone
Sleep ==
    /\ rpc' = "sleep"
    /\ wakeAt' = now + SleepSeconds
    /\ pc' = [pc EXCEPT ![Loop] = "idle"]
    /\ cur' = [cur EXCEPT ![Loop] = NoCall]
    /\ result' = [result EXCEPT ![Loop] = NoResult]
    /\ joined' = [joined EXCEPT ![Loop] = NoOutcome]
    /\ sawStale' = sawStale \ {Loop}
    /\ UNCHANGED <<cache, locks, locked, waiters, recording, staleFetch,
                   staleEntry>>

\* top of "while True": await self.refresh_nodes()
LoopRefreshNodes ==
    /\ ~Returned
    /\ rpc = "start" \/ (rpc = "sleep" /\ now >= wakeAt)
    /\ RefreshNodes
    /\ rpc' = "nodes"
    /\ lastRunAt' = [lastRunAt EXCEPT !["nodes"] = now]
    /\ UNCHANGED <<now, calls, wakeAt, lastError, logVars, more,
                   frontVars>>

\* refresh_nodes() returned or raised: the services check, or the except
\* branch, then the sleep
LoopAfterNodes ==
    /\ rpc = "nodes"
    /\ RunAwaited
    /\ IF result[Loop].kind = "error"
       THEN /\ lastError' = "nodes"
            /\ Sleep
            /\ UNCHANGED lastRunAt
       ELSE IF ServicesDue
       THEN /\ RefreshServicesCache
            /\ rpc' = "services"
            /\ lastRunAt' = [lastRunAt EXCEPT !["services"] = now]
            /\ UNCHANGED <<wakeAt, lastError>>
       ELSE /\ Sleep
            /\ UNCHANGED <<lastError, lastRunAt>>
    /\ UNCHANGED <<now, calls, logVars, more,
                   frontVars>>

\* _refresh_services_cache() returned or raised, then the sleep
LoopAfterServices ==
    /\ rpc = "services"
    /\ RunAwaited
    /\ lastError' = IF result[Loop].kind = "error" THEN "services"
                    ELSE lastError
    /\ Sleep
    /\ UNCHANGED <<calls, lastRunAt, now, logVars, more,
                   frontVars>>

(* ------------------------------ LogService ----------------------------- *)

\* the append without the eviction: the buffer grows without limit
AppendUnbounded(buf, r) == Append(buf, r)

\* deque(maxlen=...).append(r)
DequeAppend(buf, r) ==
    IF Len(buf) < BufferMaxLen THEN Append(buf, r) ELSE Append(Tail(buf), r)

\* seq[start:] of Python: a negative start counts from the end, and the
\* start is clamped to the sequence
SliceFrom(seq, start) ==
    LET s0 == IF start < 0 THEN start + Len(seq) ELSE start
        s1 == IF s0 < 0 THEN 0 ELSE IF s0 > Len(seq) THEN Len(seq) ELSE s0
    IN  SubSeq(seq, s1 + 1, Len(seq))

\* list(self.buffer)[-count:]
GetRecent(count) == SliceFrom(buffer, 0 - count)

\* glob match of a source name against a pattern with "*"
RECURSIVE WildcardMatch(_, _)
WildcardMatch(s, p) ==
    IF p = <<>> THEN s = <<>>
    ELSE IF Head(p) = "*"
    THEN WildcardMatch(s, Tail(p)) \/ (s # <<>> /\ WildcardMatch(Tail(s), p))
    ELSE s # <<>> /\ Head(s) = Head(p) /\ WildcardMatch(Tail(s), Tail(p))

\* no pattern matches every source; otherwise some pattern is a prefix of
\* the source or wildcard-matches it
NameMatches(source, patterns) ==
    \/ patterns = {}
    \/ \E pat \in patterns :
           StartsWith(source, pat) \/ WildcardMatch(source, pat)

\* the level floor taken as strict
AboveLevel(level, minLevel) == level > minLevel

\* the level is at or above the floor
AtLeastLevel(level, minLevel) == level >= minLevel

\* the test of send_if_matches(websocket, msg, node_patterns, log_levels)
Matches(r, f) ==
    NameMatches(r.source, f.patterns) /\ AtLeastLevel(r.level, f.minLevel)

\* len(self.subscribers)
LiveCount == Cardinality({i \in 1..Len(subscribers) : subscribers[i] # Hole})

\* the loop over self.subscribers.values() runs on from entry pos without
\* suspending while the callbacks send nothing: the next entry whose
\* callback sends record r, 0 if the loop ends first
NextStop(pos, r) ==
    LET cand == {i \in (pos + 1)..Len(subscribers) :
                    /\ subscribers[i] # Hole
                    /\ Matches(r, filter[subscribers[i]])}
    IN  IF cand = {} THEN 0
        ELSE CHOOSE i \in cand : \A j \in cand : i <= j

\* LogService.start(): the collector task is created, once
StartCollector ==
    /\ ~started
    /\ started' = TRUE
    /\ pump' = "Connecting"
    /\ UNCHANGED <<buffer, subscribers, conn, filter, fan, sent, stream,
                   backlog, cacheVars, now, calls, loopVars,
                   more, frontVars>>

\* ros2_topic_echo_stream("/rosout") has opened its stream
StreamOpened ==
    /\ pump = "Connecting"
    /\ pump' = "Streaming"
    /\ UNCHANGED <<buffer, subscribers, conn, filter, started, fan, sent,
                   stream, backlog, cacheVars, now, calls, loopVars,
                   more, frontVars>>

\* the record is sent to the subscribers before it is appended
NotYetCollected(buf, r) == buf

\* the buffer as the fan-out loop finds it: the record has been appended
Collected(buf, r) == DequeAppend(buf, r)

\* the stream yields a record: self.buffer.append(log_entry), then the loop
\* over the subscribers up to the first callback that suspends
Collect(source, level) ==
    LET r == [seq |-> Len(stream) + 1, source |-> source, level |-> level]
    IN  /\ pump = "Streaming"
        /\ fan = NoFan
        /\ Len(stream) < MaxRecords
        /\ stream' = Append(stream, r)
        /\ buffer' = Collected(buffer, r)
        /\ fan' = IF NextStop(0, r) = 0 THEN NoFan
                  ELSE [rec |-> r, pos |-> NextStop(0, r),
                        to |-> subscribers[NextStop(0, r)],
                        used |-> LiveCount,
                        filters |-> Rec(filter, NoFan.filters)]
        /\ UNCHANGED <<subscribers, conn, filter, pump, started, sent,
                       backlog, cacheVars, now, calls, loopVars,
                   more, frontVars>>

\* the loop starts over at the entry it has just served
RestartAt(pos) == pos - 1

\* the dict iterator goes on behind the entry it has just served
ResumeAfter(pos) == pos

\* the awaited callback is over: the for statement asks the dict iterator
\* for its next entry, which raises RuntimeError when the dict has changed
\* size; the exception is outside the try and ends the collector task
FanContinue ==
    IF LiveCount # fan.used
    THEN /\ pump' = "Disconnected"
         /\ fan' = NoFan
    ELSE /\ pump' = pump
         /\ LET nxt == NextStop(ResumeAfter(fan.pos), fan.rec)
            IN  fan' = IF nxt = 0 THEN NoFan
                       ELSE [fan EXCEPT !.pos = nxt, !.to = subscribers[nxt]]

\* the websocket has taken the record
SendDone ==
    /\ fan # NoFan
    /\ sent' = [sent EXCEPT ![fan.to] = Append(@, fan.rec)]
    /\ FanContinue
    /\ UNCHANGED <<buffer, subscribers, conn, filter, started, stream,
                   backlog, cacheVars, now, calls, loopVars,
                   more, frontVars>>

\* the send raised: "except: pass"
SendFail ==
    /\ fan # NoFan
    /\ FanContinue
    /\ UNCHANGED <<buffer, subscribers, conn, filter, started, sent, stream,
                   backlog, cacheVars, now, calls, loopVars,
                   more, frontVars>>

\* the stream ends or raises: _collect_logs is over
StreamEnd ==
    /\ pump = "Streaming"
    /\ fan = NoFan
    /\ pump' = "Disconnected"
    /\ UNCHANGED <<buffer, subscribers, conn, filter, started, fan, sent,
                   stream, backlog, cacheVars, now, calls, loopVars,
                   more, frontVars>>

\* the records of seq that match filter f, the last ReplayCount of them
MatchingTail(seq, f) ==
    LET idx == {i \in 1..Len(seq) : Matches(seq[i], f)}
        RECURSIVE Pick(_)
        Pick(S) == IF S = {} THEN <<>>
                   ELSE LET m == CHOOSE i \in S : \A j \in S : i >= j
                        IN  Append(Pick(S \ {m}), seq[m])
        all == Pick(idx)
    IN  SubSeq(all, IF Len(all) > ReplayCount THEN Len(all) - ReplayCount + 1
                    ELSE 1, Len(all))

\* logs_websocket up to its first receive_json(): the connection is
\* accepted and log_service.subscribe(callback) registers the callback
Subscribe(c, f) ==
    /\ conn[c] = "new"
    /\ conn' = [conn EXCEPT ![c] = "open"]
    /\ filter' = [filter EXCEPT ![c] = f]
    /\ subscribers' = Append(subscribers, c)
    /\ backlog' = Rec([backlog EXCEPT ![c] = MatchingTail(buffer, f)], backlog)
    /\ UNCHANGED <<buffer, pump, started, fan, sent, stream, cacheVars, now,
                   calls, loopVars,
                   more, frontVars>>

\* only node_patterns is assigned before the handler suspends again
TornFilter(old, new) == [old EXCEPT !.patterns = new.patterns]

\* node_patterns = data.get("nodes"); log_levels = data.get("levels")
NewFilter(old, new) == new

\* the client sends {"action": "update_filter", ...}
UpdateFilter(c, f) ==
    /\ conn[c] = "open"
    /\ filter[c] # f
    /\ filter' = [filter EXCEPT ![c] = NewFilter(filter[c], f)]
    /\ UNCHANGED <<buffer, subscribers, conn, pump, started, fan, sent,
                   stream, backlog, cacheVars, now, calls, loopVars,
                   more, frontVars>>

\* receive_json() raises, the finally block runs:
\* self.subscribers.pop(sub_id, None)
Unsubscribe(c) ==
    /\ conn[c] = "open"
    /\ conn' = [conn EXCEPT ![c] = "closed"]
    /\ filter' = [filter EXCEPT ![c] = NoFilter]
    /\ subscribers' = [i \in 1..Len(subscribers) |->
                          IF subscribers[i] = c THEN Hole ELSE subscribers[i]]
    /\ UNCHANGED <<buffer, pump, started, fan, sent, stream, backlog,
                   cacheVars, now, calls, loopVars,
                   more, frontVars>>

\* LogService.start() is called again: it has no test of _collector_task,
\* so it creates one more collector task, which opens a stream of its own
\* (the task is followed up to the end of its stream; the records it
\* yields are left out)
StartAgain ==
    /\ started
    /\ Len(more) < MaxStarts
    /\ more' = Append(more, "Connecting")
    /\ UNCHANGED <<cacheVars, now, calls, loopVars, logVars, frontVars>>

\* ros2_topic_echo_stream("/rosout") of a further collector task has opened
MoreOpened(i) ==
    /\ more[i] = "Connecting"
    /\ more' = [more EXCEPT ![i] = "Streaming"]
    /\ UNCHANGED <<cacheVars, now, calls, loopVars, logVars, frontVars>>

\* the stream of a further collector task ends or raises
MoreEnded(i) ==
    /\ more[i] = "Streaming"
    /\ more' = [more EXCEPT ![i] = "Disconnected"]
    /\ UNCHANGED <<cacheVars, now, calls, loopVars, logVars, frontVars>>

(* ---------------------- web client: notifications ---------------------- *)

\* const MAX_NOTIFICATIONS = 5
MAX_NOTIFICATIONS == 5

\* the list is evicted only when it holds more than the maximum
QueueOverfull(n) == n > MAX_NOTIFICATIONS

\* updated.length >= MAX_NOTIFICATIONS
QueueFull(n) == n >= MAX_NOTIFICATIONS

\* while (updated.length >= MAX_NOTIFICATIONS) updated = updated.slice(1)
RECURSIVE EvictOldest(_)
EvictOldest(updated) ==
    IF QueueFull(Len(updated)) THEN EvictOldest(Tail(updated)) ELSE updated

\* the ids of a list
Ids(list) == {list[i] : i \in 1..Len(list)}

\* prev.filter(n => n.id !== id)
FilterOut(list, id) == SelectSeq(list, LAMBDA n : n # id)

\* addNotification(notification): the updater evicts the oldest entries of
\* a full list and clears their timers, the new entry goes last and gets
\* its auto-dismiss timer (the updaters of setNotifications run one after
\* the other in the order of the calls, so each call is one step)
AddNotification ==
    LET id == nextId + 1
        kept == EvictOldest(notifications)
    IN  /\ nextId < MaxNotes
        /\ nextId' = id
        /\ notifications' = Append(kept, id)
        /\ timers' = (timers \ (Ids(notifications) \ Ids(kept))) \cup {id}
        /\ dropped' = dropped \cup (Ids(notifications) \ Ids(kept))
        /\ UNCHANGED <<backVars, panelVars, alertVars, detailVars>>

\* removeNotification(id), from the close button of a toast
RemoveNotification(id) ==
    /\ id \in Ids(notifications)
    /\ timers' = timers \ {id}
    /\ notifications' = FilterOut(notifications, id)
    /\ UNCHANGED <<nextId, dropped, backVars, panelVars,
                   alertVars, detailVars>>

\* the auto-dismiss timer of id fires: removeNotification(id)
TimerExpires(id) ==
    /\ id \in timers
    /\ timers' = timers \ {id}
    /\ notifications' = FilterOut(notifications, id)
    /\ UNCHANGED <<nextId, dropped, backVars, panelVars,
                   alertVars, detailVars>>

\* clearAll()
ClearAll ==
    /\ notifications # <<>>
    /\ timers' = {}
    /\ notifications' = <<>>
    /\ UNCHANGED <<nextId, dropped, backVars, panelVars,
                   alertVars, detailVars>>

(* ------------------------ web client: log panel ------------------------ *)

\* the nodes whose logs the panel can be opened for
PanelNodes == {"n1", "n2"}

\* the nodeName effect of LogPanel (it depends on nodeName only): the list
\* and the pause buffer are reset and a socket is created whose onMessage
\* closure holds the paused of this render, for as long as the socket
\* lives (status and errorMsg are left out)
OpenPanel(n) ==
    /\ n # panelNode
    /\ panelNode' = n
    /\ logs' = <<>>
    /\ pausedLogs' = <<>>
    /\ seenPaused' = paused
    /\ UNCHANGED <<paused, arrived, backVars, notifVars, alertVars, detailVars>>

\* a "log" message arrives on the socket: onMessage(msg) as the closure
\* was created
LogMessage ==
    LET msg == arrived + 1
    IN  /\ panelNode # ""
        /\ arrived < MaxMsgs
        /\ arrived' = msg
        /\ IF seenPaused
           THEN /\ pausedLogs' = Append(pausedLogs, msg)
                /\ logs' = logs
           ELSE /\ logs' = Append(SliceFrom(logs, 0 - (LogsKept - 1)), msg)
                /\ pausedLogs' = pausedLogs
        /\ UNCHANGED <<panelNode, paused, seenPaused, backVars, notifVars,
                       alertVars, detailVars>>

\* the pause button: setPaused(!paused), then the effect on paused, which
\* on resume moves the pause buffer behind the displayed list
TogglePause ==
    /\ panelNode # ""
    /\ paused' = ~paused
    /\ IF paused /\ pausedLogs # <<>>
       THEN /\ logs' = SliceFrom(logs \o pausedLogs, 0 - LogsKept)
            /\ pausedLogs' = <<>>
       ELSE UNCHANGED <<logs, pausedLogs>>
    /\ UNCHANGED <<panelNode, seenPaused, arrived, backVars, notifVars,
                   alertVars, detailVars>>

\* clearLogs()
ClearLogs ==
    /\ panelNode # ""
    /\ logs # <<>> \/ pausedLogs # <<>>
    /\ logs' = <<>>
    /\ pausedLogs' = <<>>
    /\ UNCHANGED <<panelNode, paused, seenPaused, arrived, backVars,
                   notifVars, alertVars, detailVars>>

(* ------------------------ web client: useAlerts ------------------------ *)

\* the refs of the hook and the sockets it has created, as one record
AlertState ==
    [ws |-> wsRef, connecting |-> isConnecting, timer |-> refTimer,
     reconnects |-> reconnects, socks |-> socks]

\* new WebSocket(url) with onopen, onmessage, onerror and onclose set
NewSock == [state |-> "connecting", onclose |-> TRUE, onerror |-> TRUE,
            failed |-> FALSE]

\* ws.close(): a socket that was connecting fails (its error event comes
\* before its close event), an open one closes; otherwise nothing happens
CloseSock(s) ==
    IF s.state \in {"connecting", "open"}
    THEN [s EXCEPT !.state = "closing", !.failed = (s.state = "connecting")]
    ELSE s

\* reconnectTimeoutRef.current = setTimeout(..., WS_RECONNECT_DELAY)
Schedule(h) == [h EXCEPT !.timer = "pending", !.reconnects = @ + 1]

\* clearTimeout(reconnectTimeoutRef.current)
ClearTimeout(h) ==
    IF h.timer = "pending"
    THEN [h EXCEPT !.timer = "dead", !.reconnects = @ - 1]
    ELSE h

\* the cleanup leaves the handlers of the socket as they are
KeepOnClose(s) == s

\* wsRef.current.onclose = null
DropOnClose(s) == [s EXCEPT !.onclose = FALSE]

\* the cleanup of the effect: the timer is cleared (the ref keeps its
\* value), the socket loses its onclose, is closed and forgotten;
\* isConnectingRef is left as it is
Cleanup(h) ==
    LET h1 == ClearTimeout(h)
    IN  IF h1.ws = 0 THEN h1
        ELSE [h1 EXCEPT !.socks[h1.ws] = CloseSock(DropOnClose(@)),
                        !.ws = 0]

\* connect() of a render whose enabled is en; ok is whether
\* new WebSocket(url) returns (it throws otherwise)
Connect(h, en, ok) ==
    IF h.connecting \/ ~en THEN h
    ELSE LET h1 == [ClearTimeout(h) EXCEPT !.connecting = TRUE,
                                           !.timer = "none"]
             h2 == IF h1.ws = 0 THEN h1
                   ELSE [h1 EXCEPT
                            !.socks[h1.ws] =
                                CloseSock([@ EXCEPT !.onclose = FALSE,
                                                    !.onerror = FALSE]),
                            !.ws = 0]
         IN  IF ok
             THEN [h2 EXCEPT !.socks = Append(@, NewSock),
                             !.ws = Len(h2.socks) + 1]
             ELSE LET h3 == [h2 EXCEPT !.connecting = FALSE]
                  IN  IF en THEN Schedule(h3) ELSE h3

\* the refs and sockets become those of record h
SetAlertState(h) ==
    /\ wsRef' = h.ws
    /\ isConnecting' = h.connecting
    /\ refTimer' = h.timer
    /\ reconnects' = h.reconnects
    /\ socks' = h.socks

\* the component that uses the hook mounts: the effect runs
Mount(en, ok) ==
    /\ hook = "new"
    /\ hook' = "mounted"
    /\ enabled' = en
    /\ SetAlertState(Connect(AlertState, en, ok))
    /\ UNCHANGED <<backVars, notifVars, panelVars, detailVars>>

\* enabled changes: the cleanup of the old effect runs, then the effect of
\* the new render
SetEnabled(ok) ==
    /\ hook = "mounted"
    /\ Len(socks) < MaxSockets
    /\ enabled' = ~enabled
    /\ SetAlertState(Connect(Cleanup(AlertState), ~enabled, ok))
    /\ UNCHANGED <<hook, backVars, notifVars, panelVars, detailVars>>

\* the component unmounts: the cleanup runs
Unmount ==
    /\ hook = "mounted"
    /\ hook' = "gone"
    /\ SetAlertState(Cleanup(AlertState))
    /\ UNCHANGED <<enabled, backVars, notifVars, panelVars, detailVars>>

\* the open event of a socket: ws.onopen
SockOpen(i) ==
    /\ socks[i].state = "connecting"
    /\ socks' = [socks EXCEPT ![i].state = "open"]
    /\ isConnecting' = FALSE
    /\ UNCHANGED <<hook, enabled, wsRef, refTimer, reconnects, backVars,
                   notifVars, panelVars, detailVars>>

\* a socket is closed: the connection failed or dropped (err: the error
\* event comes first) or a close has completed. ws.onerror, then
\* ws.onclose, each if it is still set; the enabled of the closure is
\* true, since connect() creates a socket only when it is
SockDrop(i, err) ==
    /\ socks[i].state \in {"connecting", "open", "closing"}
    /\ socks[i].state = "connecting" => err
    /\ socks[i].state = "closing" => (err <=> socks[i].failed)
    /\ LET h0 == [AlertState EXCEPT !.socks[i].state = "closed"]
           h1 == IF err /\ socks[i].onerror
                 THEN [h0 EXCEPT !.connecting = FALSE] ELSE h0
           h2 == IF socks[i].onclose
                 THEN Schedule([h1 EXCEPT !.connecting = FALSE, !.ws = 0])
                 ELSE h1
       IN  SetAlertState(h2)
    /\ UNCHANGED <<hook, enabled, backVars, notifVars, panelVars, detailVars>>

\* a reconnect timer fires (own: it is the one the ref holds): connect()
\* of the render that scheduled it, whose enabled is true
TimerFire(own, ok) ==
    /\ Len(socks) < MaxSockets
    /\ IF own THEN refTimer = "pending"
              ELSE reconnects > (IF refTimer = "pending" THEN 1 ELSE 0)
    /\ SetAlertState(Connect([AlertState EXCEPT
                                  !.reconnects = @ - 1,
                                  !.timer = IF own THEN "dead" ELSE @],
                             TRUE, ok))
    /\ UNCHANGED <<hook, enabled, backVars, notifVars, panelVars, detailVars>>

(* --------------------- web client: node detail panel ------------------- *)

\* data.node of a response for node n
Detail(n, k) ==
    [name |-> n, type |-> k.type, status |-> k.status,
     lifecycle_state |-> k.lifecycle_state]

\* the lifecycle buttons the Actions block renders for the detail nd
LifecycleButtons(nd) ==
    IF nd.type = "lifecycle" /\ nd.status = "active"
          /\ nd.lifecycle_state # "finalized"
    THEN (IF nd.lifecycle_state \in {"unconfigured", ""}
          THEN {"configure"} ELSE {})
         \cup (IF nd.lifecycle_state = "inactive"
               THEN {"activate", "cleanup"} ELSE {})
         \cup (IF nd.lifecycle_state = "active" THEN {"deactivate"} ELSE {})
         \cup (IF nd.lifecycle_state \in {"unconfigured", "inactive", "active"}
               THEN {"shutdown"} ELSE {})
    ELSE {}

\* the "Kill Process" button is rendered for the detail nd
KillProcessButton(nd) == nd.type = "regular" /\ nd.status = "active"

\* the confirmation with its "Kill" button is rendered
ConfirmShown == node # NoNode /\ showConfirm

\* refresh() up to its await: setLoading(true); setError(null)
RefreshBegin ==
    /\ loading' = TRUE
    /\ error' = FALSE

\* refresh() of a render whose nodeName is n, after its await: the
\* response (detail k) is stored and displayed, or the error is shown
RefreshEnd(n, ok, k) ==
    /\ loading' = FALSE
    /\ IF ok
       THEN /\ node' = Detail(n, k)
            /\ detailCache' = [detailCache EXCEPT ![n] = Detail(n, k)]
            /\ error' = error
       ELSE /\ error' = TRUE
            /\ UNCHANGED <<node, detailCache>>

\* the user selects node n: the cleanup of the previous selection effect
\* sets its cancelled flag (its requests change nothing any more and are
\* dropped), then the effect runs for n: the cached detail, if there is
\* one, is displayed and fetchFresh begins; otherwise fetchCached begins
\* and the panel goes on displaying what it displayed
SelectNode(n) ==
    /\ n # sel
    /\ sel' = n
    /\ IF detailCache[n] # NoNode
       THEN /\ node' = detailCache[n]
            /\ RefreshBegin
            /\ effect' = [name |-> n, stage |-> "fresh"]
       ELSE /\ effect' = [name |-> n, stage |-> "cached"]
            /\ UNCHANGED <<node, loading, error>>
    /\ UNCHANGED <<actionLoading, showConfirm, detailCache, refreshes, act,
                   backVars, notifVars, panelVars, alertVars>>

\* fetchCached() of the selection effect returns, then fetchFresh() begins
FetchCachedDone(ok, k) ==
    /\ effect.stage = "cached"
    /\ node' = IF ok THEN Detail(effect.name, k) ELSE node
    /\ RefreshBegin
    /\ effect' = [effect EXCEPT !.stage = "fresh"]
    /\ UNCHANGED <<sel, actionLoading, showConfirm, detailCache, refreshes,
                   act, backVars, notifVars, panelVars, alertVars>>

\* fetchFresh() of the selection effect returns
FetchFreshDone(ok, k) ==
    /\ effect.stage = "fresh"
    /\ RefreshEnd(effect.name, ok, k)
    /\ effect' = NoRequest
    /\ UNCHANGED <<sel, actionLoading, showConfirm, refreshes, act,
                   backVars, notifVars, panelVars, alertVars>>

\* the Refresh button (disabled while loading): refresh() up to its await
ClickRefresh ==
    /\ node # NoNode
    /\ ~loading
    /\ sel \notin refreshes
    /\ RefreshBegin
    /\ refreshes' = refreshes \cup {sel}
    /\ UNCHANGED <<sel, node, actionLoading, showConfirm, detailCache,
                   effect, act, backVars, notifVars, panelVars, alertVars>>

\* the request of a refresh() for node n returns
RefreshDone(n, ok, k) ==
    /\ n \in refreshes
    /\ RefreshEnd(n, ok, k)
    /\ refreshes' = refreshes \ {n}
    /\ UNCHANGED <<sel, actionLoading, showConfirm, effect, act,
                   backVars, notifVars, panelVars, alertVars>>

\* a lifecycle button: handleLifecycle(transition) up to its first await
ClickLifecycle(t) ==
    /\ node # NoNode
    /\ t \in LifecycleButtons(node)
    /\ actionLoading = ""
    /\ actionLoading' = t
    /\ act' = [name |-> sel, stage |-> "call"]
    /\ UNCHANGED <<sel, node, loading, error, showConfirm, detailCache,
                   effect, refreshes, backVars, notifVars, panelVars,
                   alertVars>>

\* the "Kill Process" button: setShowConfirm(true)
ClickKillProcess ==
    /\ node # NoNode
    /\ KillProcessButton(node)
    /\ actionLoading = ""
    /\ ~showConfirm
    /\ showConfirm' = TRUE
    /\ UNCHANGED <<sel, node, loading, error, actionLoading, detailCache,
                   effect, refreshes, act, backVars, notifVars, panelVars,
                   alertVars>>

\* "Cancel" of the confirmation
ClickCancel ==
    /\ ConfirmShown
    /\ showConfirm' = FALSE
    /\ UNCHANGED <<sel, node, loading, error, actionLoading, detailCache,
                   effect, refreshes, act, backVars, notifVars, panelVars,
                   alertVars>>

\* "Kill" of the confirmation: handleShutdown(true) up to its first await
ClickKill ==
    /\ ConfirmShown
    /\ actionLoading = ""
    /\ actionLoading' = "kill"
    /\ showConfirm' = FALSE
    /\ act' = [name |-> sel, stage |-> "call"]
    /\ UNCHANGED <<sel, node, loading, error, detailCache, effect,
                   refreshes, backVars, notifVars, panelVars, alertVars>>

\* api.shutdownNode / api.lifecycleTransition returns: the delay begins;
\* or it raises: catch and finally
ActionCallDone(ok) ==
    /\ act.stage = "call"
    /\ IF ok
       THEN /\ act' = [act EXCEPT !.stage = "delay"]
            /\ UNCHANGED actionLoading
       ELSE /\ act' = NoRequest
            /\ actionLoading' = ""
    /\ UNCHANGED <<sel, node, loading, error, showConfirm, detailCache,
                   effect, refreshes, backVars, notifVars, panelVars,
                   alertVars>>

\* the delay of the handler is over: refresh() of the handler's render
\* up to its await
ActionDelayDone ==
    /\ act.stage = "delay"
    /\ RefreshBegin
    /\ act' = [act EXCEPT !.stage = "refresh"]
    /\ UNCHANGED <<sel, node, actionLoading, showConfirm, detailCache,
                   effect, refreshes, backVars, notifVars, panelVars,
                   alertVars>>

\* the refresh() of the handler returns, then onNodeChanged() and finally
ActionRefreshDone(ok, k) ==
    /\ act.stage = "refresh"
    /\ RefreshEnd(act.name, ok, k)
    /\ act' = NoRequest
    /\ actionLoading' = ""
    /\ UNCHANGED <<sel, showConfirm, effect, refreshes, backVars,
                   notifVars, panelVars, alertVars>>

(* -------------------------------- time --------------------------------- *)

\* a coroutine the event loop can run right now
Ready(p) ==
    \/ /\ pc[p] = "waiting"
       /\ ~locked[LockOf(cur[p].key)]
       /\ Head(waiters[LockOf(cur[p].key)]) = p
    \/ /\ p = Loop
       /\ \/ rpc = "start"
          \/ rpc = "sleep" /\ now >= wakeAt

\* one second passes: no coroutine is ready to run, and no fetch_fn has
\* used up the collaborator's time box
Tick(maxTime, maxLatency) ==
    /\ ~Returned
    /\ now < maxTime
    /\ \A p \in Procs : ~Ready(p)
    /\ \A p \in Procs : pc[p] = "fetching" => now - cur[p].startedAt < maxLatency
    /\ now' = now + 1
    /\ UNCHANGED <<cacheVars, calls, loopVars, logVars, more,
                   frontVars>>

(* --------------------------- specifications ---------------------------- *)

\* the services as constructed, the event loop about to start
Start ==
    /\ cache = [k \in Keys |-> NoEntry]
    /\ locks = {}
    /\ locked = [k \in Keys |-> FALSE]
    /\ waiters = [k \in Keys |-> <<>>]
    /\ pc = [p \in Procs |-> "idle"]
    /\ cur = [p \in Procs |-> NoCall]
    /\ result = [p \in Procs |-> NoResult]
    /\ now = 0
    /\ calls = 0
    /\ rpc = "start"
    /\ wakeAt = 0
    /\ lastError = ""
    /\ lastRunAt = [t \in Tasks |-> -1]
    /\ joined = [p \in Procs |-> NoOutcome]
    /\ staleFetch = {}
    /\ staleEntry = {}
    /\ sawStale = {}
    /\ buffer = <<>>
    /\ subscribers = <<>>
    /\ conn = [c \in Conns |-> "new"]
    /\ filter = [c \in Conns |-> NoFilter]
    /\ pump = "Disconnected"
    /\ started = FALSE
    /\ fan = NoFan
    /\ sent = [c \in Conns |-> <<>>]
    /\ stream = <<>>
    /\ backlog = [c \in Conns |-> <<>>]
    /\ more = <<>>
    /\ notifications = <<>>
    /\ timers = {}
    /\ nextId = 0
    /\ dropped = {}
    /\ panelNode = ""
    /\ logs = <<>>
    /\ paused = FALSE
    /\ pausedLogs = <<>>
    /\ seenPaused = FALSE
    /\ arrived = 0
    /\ hook = "new"
    /\ enabled = FALSE
    /\ wsRef = 0
    /\ isConnecting = FALSE
    /\ refTimer = "none"
    /\ reconnects = 0
    /\ socks = <<>>
    /\ sel = ""
    /\ node = NoNode
    /\ loading = FALSE
    /\ error = FALSE
    /\ actionLoading = ""
    /\ showConfirm = FALSE
    /\ detailCache = [n \in DetailNodes |-> NoNode]
    /\ effect = NoRequest
    /\ refreshes = {}
    /\ act = NoRequest

Init == Start /\ recording = FALSE

InitHist == Start /\ recording = TRUE

\* request handlers, mutations and the refresh loop together
Next ==
    \/ \E p \in Handlers, k \in Keys, t \in TTLs : Call(p, k, t)
    \/ \E p \in Procs : Resume(p)
    \/ \E p \in Procs : FetchOk(p)
    \/ \E p \in Procs : FetchFail(p)
    \/ \E p \in Handlers : Finish(p)
    \/ \E k \in InvalidateKeys : Invalidate(k)
    \/ \E prefix \in Prefixes : InvalidatePrefix(prefix)
    \/ LoopRefreshNodes
    \/ LoopAfterNodes
    \/ LoopAfterServices
    \/ Tick(MaxTime, MaxLatency)

Spec == Init /\ [][Next]_vars

\* the same program, with the history of fetches and invalidations kept
SpecHist == InitHist /\ [][Next]_vars

\* the refresh loop alone, over a longer time with slow fetches
NextSched ==
    \/ FetchOk(Loop)
    \/ FetchFail(Loop)
    \/ LoopRefreshNodes
    \/ LoopAfterNodes
    \/ LoopAfterServices
    \/ Tick(SchedMaxTime, SchedMaxLatency)

SpecSched == Init /\ [][NextSched]_vars

\* the log service: the collector task and the websocket connections
NextLog ==
    \/ StartCollector
    \/ StreamOpened
    \/ \E k \in RecordKinds : Collect(k.source, k.level)
    \/ SendDone
    \/ SendFail
    \/ StreamEnd
    \/ \E c \in Conns, f \in Filters : Subscribe(c, f)
    \/ \E c \in Conns, f \in Filters : UpdateFilter(c, f)
    \/ \E c \in Conns : Unsubscribe(c)

SpecLog == Init /\ [][NextLog]_vars

\* the same, with the history of backlogs and of filters at publication kept
SpecLogHist == InitHist /\ [][NextLog]_vars

\* a send to a websocket that has been closed raises
SendToClosed == fan # NoFan /\ conn[fan.to] = "closed" /\ SendFail

\* the event loop runs a coroutine that can run: the collector task starts,
\* its stream opens, and a send to a closed websocket raises.  Whether the
\* stream yields, and whether an open websocket takes what is sent to it,
\* is not up to the event loop.
SpecLogFair ==
    /\ Init
    /\ [][NextLog]_vars
    /\ WF_vars(StartCollector)
    /\ WF_vars(StreamOpened)
    /\ WF_vars(SendToClosed)

\* the log service when start() may be called more than once
NextStart ==
    \/ NextLog
    \/ StartAgain
    \/ \E i \in 1..Len(more) : MoreOpened(i)
    \/ \E i \in 1..Len(more) : MoreEnded(i)

SpecStart == Init /\ [][NextStart]_vars

\* the notification provider
NextNotif ==
    \/ AddNotification
    \/ \E id \in 1..MaxNotes : RemoveNotification(id)
    \/ \E id \in 1..MaxNotes : TimerExpires(id)
    \/ ClearAll

SpecNotif == Init /\ [][NextNotif]_vars

\* the log panel
NextPanel ==
    \/ \E n \in PanelNodes : OpenPanel(n)
    \/ LogMessage
    \/ TogglePause
    \/ ClearLogs

SpecPanel == Init /\ [][NextPanel]_vars

\* what the sockets and timers of useAlerts do by themselves
AlertEvent ==
    \/ \E i \in 1..Len(socks) : SockOpen(i)
    \/ \E i \in 1..Len(socks), err \in BOOLEAN : SockDrop(i, err)
    \/ \E own \in BOOLEAN, ok \in BOOLEAN : TimerFire(own, ok)

\* the useAlerts hook
NextAlerts ==
    \/ \E en \in BOOLEAN, ok \in BOOLEAN : Mount(en, ok)
    \/ \E ok \in BOOLEAN : SetEnabled(ok)
    \/ Unmount
    \/ AlertEvent

SpecAlerts == Init /\ [][NextAlerts]_vars

\* pending socket events and timers do happen
SpecAlertsFair == SpecAlerts /\ WF_vars(AlertEvent)

\* the node detail panel
NextDetail ==
    \/ \E n \in DetailNodes : SelectNode(n)
    \/ \E ok \in BOOLEAN, k \in NodeKinds : FetchCachedDone(ok, k)
    \/ \E ok \in BOOLEAN, k \in NodeKinds : FetchFreshDone(ok, k)
    \/ ClickRefresh
    \/ \E n \in DetailNodes, ok \in BOOLEAN, k \in NodeKinds :
           RefreshDone(n, ok, k)
    \/ \E t \in {"configure", "activate", "deactivate", "cleanup",
                  "shutdown"} : ClickLifecycle(t)
    \/ ClickKillProcess
    \/ ClickCancel
    \/ ClickKill
    \/ \E ok \in BOOLEAN : ActionCallDone(ok)
    \/ ActionDelayDone
    \/ \E ok \in BOOLEAN, k \in NodeKinds : ActionRefreshDone(ok, k)

SpecDetail == Init /\ [][NextDetail]_vars

(* ------------------------------ properties ---------------------------- *)

\* C1: callers of get_or_fetch(K) that arrive while a fetch for K is in
\* flight cause no second fetch_fn invocation, and each of them returns the
\* outcome of that one fetch: its value, or its error.
C1_WaitersShareTheOneFetch ==
    \A p \in Procs :
        joined[p] # NoOutcome =>
            /\ pc[p] # "fetching"
            /\ pc[p] = "done" =>
                  /\ ~result[p].fetched
                  /\ result[p].kind = joined[p].kind
                  /\ result[p].v = joined[p].v

\* C2: in every reachable state at most one fetch_fn invocation is in
\* progress for any cache key, request handlers and the refresh loop
\* together.
C2_AtMostOneFetchPerKey ==
    \A k \in Keys :
        Cardinality({p \in Procs : pc[p] = "fetching" /\ cur[p].key = k}) <= 1

\* the refresh loop and a request handler contend for one key: one of them
\* is fetching it and the other waits
C2_Witness ==
    \E p \in Handlers :
        /\ cur[p].key = cur[Loop].key
        /\ {pc[p], pc[Loop]} = {"fetching", "waiting"}

\* C3: when fetch_fn raises, the caller gets the error, the cache is left
\* as it was (an earlier entry keeps value and expiry), the key's lock is
\* free again and no fetch is running for it; an error is only ever
\* returned by the call that ran the failing fetch_fn, and the cache never
\* holds an error.
C3_FailureNotCached ==
    [][\A p \in Procs :
          /\ (pc[p] = "fetching" /\ pc'[p] = "done"
                /\ result'[p].kind = "error") =>
                /\ cache' = cache
                /\ ~locked'[cur[p].key]
                /\ \A q \in Procs :
                       ~(pc'[q] = "fetching" /\ cur'[q].key = cur[p].key)
          /\ result'[p].kind = "error" => result'[p].fetched
          /\ \A k \in Keys : cache'[k].present => cache'[k].value >= 0
      ]_vars

\* a fetch_fn has just raised for a key whose earlier entry is still in the
\* cache
C3_Witness ==
    \E p \in Procs :
        /\ pc[p] = "done"
        /\ result[p].kind = "error"
        /\ cache[cur[p].key].present

\* C4: a call that finds a non-expired entry returns its value at once and
\* starts no fetch_fn; and whenever a cached value is returned, by a call or
\* by a waiter that has been handed the lock, its entry is not expired at
\* that moment (now < expires_at), so an entry stored at t0 with TTL T is
\* never returned at a time later than t0 + T.
C4_OnlyLiveEntriesReturned ==
    [][\A p \in Procs :
          /\ (pc'[p] = "done" /\ ~result'[p].fetched
                /\ (pc[p] # "done" \/ cur'[p] # cur[p])) =>
                /\ cache[cur'[p].key].present
                /\ now < cache[cur'[p].key].expiresAt
                /\ result'[p].v = cache[cur'[p].key].value
          /\ (pc[p] \in {"idle", "done"}
                /\ pc'[p] \in {"waiting", "fetching"}) =>
                ~(cache[cur'[p].key].present
                    /\ now < cache[cur'[p].key].expiresAt)
      ]_vars

\* a read after expiry: fetch_fn is running for a key whose expired entry
\* is still in the cache
C4_Witness ==
    \E p \in Procs :
        /\ pc[p] = "fetching"
        /\ cache[cur[p].key].present
        /\ now >= cache[cur[p].key].expiresAt

\* C5: a get_or_fetch that begins after invalidate / invalidate_prefix of
\* its key has returned never returns a value produced by a fetch_fn
\* invocation that began before that invalidation.
C5_FreshAfterInvalidate ==
    \A p \in Procs :
        (pc[p] = "done" /\ result[p].kind = "value" /\ ~result[p].fetched
            /\ p \in sawStale) =>
            cur[p].key \notin staleEntry

\* C6: from any cache content, invalidate_prefix(prefix) leaves exactly the
\* keys that start with prefix without an entry and every other entry as it
\* was; invalidate(key) does so for that one key, and changes nothing when
\* the key has no entry.
C6_InvalidateFrame ==
    /\ \A prefix \in Prefixes :
           \A k \in Keys :
               Popped(KeysToRemove(prefix))[k] =
                   IF Len(prefix) <= Len(k) /\ SubSeq(k, 1, Len(prefix)) = prefix
                   THEN NoEntry ELSE cache[k]
    /\ \A key \in InvalidateKeys :
           /\ \A k \in Keys :
                  Popped({key})[k] = IF k = key THEN NoEntry ELSE cache[k]
           /\ (key \notin Keys \/ ~cache[key].present) => Popped({key}) = cache

\* the first round of the refresh loop has stored the node list and the
\* service list without an error, and the node list has no entry any more:
\* it has been invalidated, and the entry of the service list is still there
C6_Witness ==
    /\ rpc = "sleep"
    /\ lastError = ""
    /\ ~cache[NodesListKey].present
    /\ cache[ServicesListKey].present

\* C7: a caller is suspended only on account of its own key: either
\* another coroutine is fetching, queued for or just back from that same
\* key, or the key's lock is free and the caller is the next to run.  A
\* fetch outstanding for a different key never makes it wait.
C7_WaitsOnlyForOwnKey ==
    \A p \in Procs :
        pc[p] = "waiting" =>
            \/ \E q \in Procs \ {p} :
                   /\ cur[q].key = cur[p].key
                   /\ pc[q] \in {"fetching", "waiting", "done"}
            \/ /\ ~locked[cur[p].key]
               /\ waiters[cur[p].key] # <<>>
               /\ Head(waiters[cur[p].key]) = p

\* fetches for two different keys are running at the same time
C7_Witness ==
    \E p, q \in Procs :
        /\ pc[p] = "fetching"
        /\ pc[q] = "fetching"
        /\ cur[p].key # cur[q].key

\* C8: the refresh loop starts a run only when its previous run has
\* returned, leaves a run only when that run has returned, and starts the
\* runs of one task at least SleepSeconds apart: a slow run delays the next
\* one, no run is started on top of it or queued behind it.
C8_NoOverlappingRuns ==
    [][/\ (rpc \in Tasks /\ rpc' # rpc) => pc[Loop] = "done"
       /\ (rpc' \in Tasks /\ rpc' # rpc) => pc[Loop] \in {"idle", "done"}
       /\ \A t \in Tasks :
              (lastRunAt'[t] # lastRunAt[t] /\ lastRunAt[t] >= 0) =>
                  lastRunAt'[t] >= lastRunAt[t] + SleepSeconds
      ]_vars

\* a slow run: the node refresh is still fetching SleepSeconds after it
\* began
C8_Witness ==
    /\ rpc = "nodes"
    /\ pc[Loop] = "fetching"
    /\ now >= lastRunAt["nodes"] + SleepSeconds

\* C9: the service list is refreshed every ServicesPeriod seconds: as long
\* as no run has failed, never more than one period, plus one sleep of the
\* loop, passes without a run of the services task.
C9_ServicesRefreshedEveryPeriod ==
    lastError = "" =>
        now - (IF lastRunAt["services"] < 0 THEN 0 ELSE lastRunAt["services"])
            <= ServicesPeriod + SleepSeconds

\* C10: a failed run of one refresh task does not keep the other task from
\* running on its schedule: when the node refresh ends at a second that is
\* a multiple of ServicesPeriod, the services refresh is run, and the
\* cache is left as it was by the failure.
C10_FailedRunDoesNotBlockOthers ==
    [][(rpc = "nodes" /\ rpc' # "nodes" /\ now % 30 = 0) =>
           rpc' = "services"
      ]_vars

\* C11: the log buffer never holds more than BufferMaxLen records, and it
\* holds exactly the last BufferMaxLen records the collector has appended
\* (all of them while there are fewer), in the order of their appending:
\* the oldest record is the one evicted.
C11_RingBufferKeepsLastN ==
    /\ Len(buffer) <= BufferMaxLen
    /\ buffer = SubSeq(stream,
                       IF Len(stream) > BufferMaxLen
                       THEN Len(stream) - BufferMaxLen + 1 ELSE 1,
                       Len(stream))

\* more records have been appended than the buffer holds
C11_Witness ==
    /\ Len(stream) > BufferMaxLen
    /\ Len(buffer) = BufferMaxLen

\* C12: for every buffer content and every count from 0 to MaxCount,
\* get_recent(count) is the last min(count, size) records of the buffer in
\* their order.
C12_GetRecentReturnsLastMin ==
    \A count \in 0..MaxCount :
        LET n == IF count < Len(buffer) THEN count ELSE Len(buffer)
        IN  /\ Len(GetRecent(count)) = n
            /\ \A i \in 1..n :
                   GetRecent(count)[i] = buffer[Len(buffer) - n + i]

\* C13: what a subscription has received begins with its backlog, the
\* matching tail of the buffer at subscribe time: no record published after
\* the subscribe is received in the place of a backlog record.
C13_BacklogBeforeLive ==
    \A c \in Conns :
        \A i \in 1..Len(backlog[c]) :
            i <= Len(sent[c]) => sent[c][i] = backlog[c][i]

\* the source name src matches one pattern: the pattern is a prefix of it,
\* or the pattern has a "*" and src begins with what stands before the "*"
\* and ends with what stands after it
PatternFits(src, pat) ==
    \/ /\ Len(pat) <= Len(src)
       /\ SubSeq(src, 1, Len(pat)) = pat
    \/ \E i \in 1..Len(pat) :
          /\ pat[i] = "*"
          /\ Len(src) >= Len(pat) - 1
          /\ SubSeq(src, 1, i - 1) = SubSeq(pat, 1, i - 1)
          /\ SubSeq(src, Len(src) - (Len(pat) - i) + 1, Len(src)) =
                 SubSeq(pat, i + 1, Len(pat))

\* record r is to be delivered under filter f
Wanted(r, f) ==
    /\ f.patterns = {} \/ \E pat \in f.patterns : PatternFits(r.source, pat)
    /\ ~(r.level < f.minLevel)

C15_JudgedByFilterAtPublication ==
    [][(fan # NoFan /\ fan' # fan /\ pump' = pump) =>
          LET to == IF fan' = NoFan THEN Len(subscribers) + 1 ELSE fan'.pos
          IN  /\ fan' # NoFan => Matches(fan.rec, fan.filters[fan'.to])
              /\ \A i \in (fan.pos + 1)..(to - 1) :
                    (subscribers[i] # Hole
                        /\ fan.filters[subscribers[i]] # NoFilter) =>
                        ~Matches(fan.rec, fan.filters[subscribers[i]])
      ]_vars

\* C16: what a subscription has received is in the order of publication:
\* every item is a record the stream has produced, and the records come in
\* ascending order of their place in the stream, none of them twice.
C16_FifoPerSubscription ==
    \A c \in Conns :
        /\ \A i \in 1..Len(sent[c]) :
               /\ sent[c][i].seq \in 1..Len(stream)
               /\ sent[c][i] = stream[sent[c][i].seq]
        /\ \A i, j \in 1..Len(sent[c]) :
               i < j => sent[c][i].seq < sent[c][j].seq

\* a subscription has received two records around a change of its filter
\* or of the set of subscribers
C16_Witness ==
    \E c \in Conns :
        /\ Len(sent[c]) >= 2
        /\ \E d \in Conns \ {c} : conn[d] = "closed"

\* C17: a websocket that does not take the record sent to it does not hold
\* the collector: the collector leaves it behind (dropping the record for
\* that subscription) and goes on with the other subscribers and the next
\* records.
C17_SlowSinkDoesNotStall ==
    \A c \in Conns : (fan.to = c) ~> (fan.to # c)

\* C18: the record the fan-out loop is sending is the record appended last:
\* it is the newest record of the buffer and of the stream, so a record is
\* in the buffer when a subscriber receives it; the buffer holds its records
\* in stream order; and everything received was produced by the stream.
C18_AppendedBeforePublished ==
    /\ fan # NoFan =>
          /\ buffer # <<>>
          /\ fan.rec = buffer[Len(buffer)]
          /\ fan.rec = stream[Len(stream)]
    /\ \A i, j \in 1..Len(buffer) : i < j => buffer[i].seq < buffer[j].seq
    /\ \A c \in Conns :
           \A i \in 1..Len(sent[c]) : sent[c][i].seq <= Len(stream)

\* the second record of the stream is on its way to a subscriber
C18_Witness ==
    /\ fan # NoFan
    /\ fan.rec.seq >= 2

\* C19: whenever the collector is Disconnected after it was started (its
\* stream has ended or failed), it is Connecting again later.
C19_PumpReconnects ==
    (started /\ pump = "Disconnected") ~> (pump = "Connecting")

\* the notice of a gap, as a subscriber would receive it
GapNotice == [seq |-> 0, source |-> <<"gap">>, level |-> 0]

\* the gap notices a subscription has received
Gaps(c) == {i \in 1..Len(sent[c]) : sent[c][i] = GapNotice}

\* C20: after the stream of a started collector has ended, the collector
\* is streaming again later and every open subscription has by then
\* received exactly one gap notice.
C20_OneGapNoticePerEpisode ==
    (started /\ pump = "Disconnected") ~>
        (/\ pump = "Streaming"
         /\ \A c \in Conns : conn[c] = "open" => Cardinality(Gaps(c)) = 1)

\* C30: the lock map holds only keys whose lock is held (a fetch is in
\* flight) or has a caller waiting on it.
C30_LocksOnlyWhileReferenced ==
    \A k \in locks : locked[k] \/ waiters[k] # <<>>

\* C26: while the collector is suspended in the send of a record to one
\* subscriber, no step ends ingestion: whatever subscribe or unsubscribe
\* calls run meanwhile, the collector is still streaming when that send is
\* over.
C26_InterleavingKeepsPumpRunning ==
    [][(fan # NoFan /\ pump = "Streaming") => pump' = "Streaming"]_vars

\* the subscriptions in the registry
Registered(subs) == {subs[i] : i \in 1..Len(subs)} \ {Hole}

\* C22: an unsubscribe removes its own subscription from the registry and
\* leaves the registration, filter and connection of every other one as
\* they were; no send begins to a subscription that was removed; and the
\* other subscriptions go on receiving: when subscriptions were removed
\* while the collector was sending a record, the record still goes to the
\* next subscription whose filter it matches.
C22_UnsubscribeAffectsNoOther ==
    [][/\ \A c \in Conns :
              (conn[c] = "open" /\ conn'[c] = "closed") =>
                  /\ c \notin Registered(subscribers')
                  /\ Registered(subscribers') = Registered(subscribers) \ {c}
                  /\ \A d \in Conns \ {c} :
                         filter'[d] = filter[d] /\ conn'[d] = conn[d]
       /\ (fan' # NoFan /\ fan' # fan) => conn'[fan'.to] = "open"
       /\ (fan # NoFan /\ fan' # fan /\ LiveCount < fan.used
              /\ NextStop(fan.pos, fan.rec) # 0) =>
                  /\ fan' # NoFan
                  /\ fan'.to = subscribers[NextStop(fan.pos, fan.rec)]
      ]_vars

\* the upstream streams ("ros2 topic echo /rosout") that are open
OpenStreams ==
    (IF pump = "Streaming" THEN 1 ELSE 0)
        + Cardinality({i \in 1..Len(more) : more[i] = "Streaming"})

\* C21: at most one upstream log stream is open at any time, whatever
\* start, subscribe and unsubscribe calls have been made.
C21_AtMostOneUpstreamStream == OpenStreams <= 1

\* C24: the notification list never holds more than 5 entries, and adding
\* one while 5 are shown removes the oldest, keeps the others in their
\* order and puts the new one last (with fewer than 5 shown, nothing is
\* removed).
C24_AtMostFiveOldestEvicted ==
    /\ Len(notifications) <= 5
    /\ [][/\ Len(notifications') <= 5
          /\ nextId' # nextId =>
                notifications' =
                    Append(IF Len(notifications) = 5
                           THEN SubSeq(notifications, 2, 5)
                           ELSE notifications, nextId')
         ]_vars

\* five notifications are shown after the list, being full, has pushed out
\* its oldest entry for a new one
C24_Witness ==
    /\ Len(notifications) = 5
    /\ dropped # {}
    /\ notifications[5] = nextId

\* C28: a log message that arrives while the panel is paused is not
\* appended to the displayed list but goes to the end of the pause buffer;
\* on resume the buffered messages are appended behind the displayed ones
\* in arrival order and the buffer is emptied; the displayed list never
\* holds more than LogsKept entries.
C28_PausedMessagesAreBuffered ==
    [][/\ (paused /\ arrived' # arrived) =>
              /\ logs' = logs
              /\ pausedLogs' = Append(pausedLogs, arrived')
       /\ (paused /\ ~paused') =>
              /\ logs' = SliceFrom(logs \o pausedLogs, 0 - LogsKept)
              /\ pausedLogs' = <<>>
       /\ Len(logs') <= LogsKept
      ]_vars

\* the hook is mounted with enabled true
AlertsWanted == hook = "mounted" /\ enabled

\* the hook holds a socket that is connecting or open
AlertsSocket == wsRef # 0 /\ socks[wsRef].state \in {"connecting", "open"}

\* C25: whenever the hook is mounted with enabled true, it later has a
\* connecting or open socket or a pending reconnect timer (or is no longer
\* mounted and enabled): it never stays enabled with neither.
C25_EnabledHookConnectsAgain ==
    AlertsWanted ~> (AlertsSocket \/ reconnects > 0 \/ ~AlertsWanted)

\* the sockets of the hook that are connecting or open
LiveSocks == {i \in 1..Len(socks) : socks[i].state \in {"connecting", "open"}}

\* C27: the hook owns at most one socket that is connecting or open and at
\* most one pending reconnect timer; while enabled is false or the
\* component is unmounted it owns no such socket and no pending reconnect
\* timer (so none fires), and no step creates a socket then.
C27_OneSocketNoneWhenDisabled ==
    /\ [](/\ Cardinality(LiveSocks) <= 1
          /\ reconnects <= 1
          /\ ~(hook = "mounted" /\ enabled) =>
                 LiveSocks = {} /\ reconnects = 0)
    /\ [][Len(socks') > Len(socks) => (hook' = "mounted" /\ enabled')]_vars

\* the hook was connecting or connected and has been disabled or unmounted:
\* the cleanup has closed its socket
C27_Witness ==
    /\ ~(hook = "mounted" /\ enabled)
    /\ \E i \in 1..Len(socks) :
           socks[i].state \in {"closing", "closed"} /\ ~socks[i].onclose

\* the lifecycle transitions valid in a lifecycle state
ValidTransitions(st) ==
    CASE st \in {"", "unconfigured"} ->
             IF st = "" THEN {"configure"} ELSE {"configure", "shutdown"}
      [] st = "inactive" -> {"activate", "cleanup", "shutdown"}
      [] st = "active" -> {"deactivate", "shutdown"}
      [] OTHER -> {}

\* C23: whatever detail is displayed, no lifecycle or kill action is
\* offered for type unknown; kill is offered only for an active regular
\* node; lifecycle transitions are offered only for an active lifecycle
\* node, and exactly those valid in its lifecycle state; and the kill
\* confirmation with its Kill button is on display only while the node
\* displayed is an active regular node.
C23_ActionsOnlyAsTypeAllows ==
    /\ \A k \in NodeInfos :
           LET nd == Detail("a", k)
           IN  /\ nd.type = "unknown" =>
                      LifecycleButtons(nd) = {} /\ ~KillProcessButton(nd)
               /\ KillProcessButton(nd) =>
                      nd.type = "regular" /\ nd.status = "active"
               /\ LifecycleButtons(nd) # {} =>
                      nd.type = "lifecycle" /\ nd.status = "active"
               /\ (nd.type = "lifecycle" /\ nd.status = "active") =>
                      LifecycleButtons(nd) = ValidTransitions(nd.lifecycle_state)
    /\ ConfirmShown => (node.type = "regular" /\ node.status = "active")

\* C29: the completion of a refresh() that was called for a node other
\* than the one now selected (from the Refresh button or at the end of a
\* shutdown or lifecycle action) changes neither the node displayed nor
\* the loading and error states.
C29_StaleResponseChangesNothing ==
    [][((\E n \in refreshes \ refreshes' : n # sel)
           \/ (act.stage = "refresh" /\ act' = NoRequest /\ act.name # sel))
        => (node' = node /\ loading' = loading /\ error' = error)
      ]_vars

====
